---------------------------- MODULE Spec2Model ----------------------------
(***************************************************************************)
(* pycgtool: functional forms for Boltzmann inversion                       *)
(* (pycgtool/functionalforms.py) and the numeric utilities                  *)
(* (pycgtool/util.py), as state machines.                                   *)
(*                                                                          *)
(* A process is modelled by the package modules it has imported, numpy's    *)
(* process-wide floating-point error mode, the list of direct subclasses    *)
(* of FunctionalForm, the arguments its caller holds, the most recent       *)
(* operation with its outcome, and the sliding() generators alive in it.    *)
(*                                                                          *)
(* Numbers.  A float is a pair <<n, d>>: the rational n/d in lowest terms   *)
(* when d > 0, NaN = <<0,0>>, +inf = <<1,0>>, -inf = <<-1,0>>.  Every       *)
(* arithmetic operation rounds its exact result to the nearest float with   *)
(* a significand of MantBits bits, ties to even, as IEEE-754 does with 53   *)
(* bits.  The exponent range is unbounded (overflow and underflow are not   *)
(* modelled) and zero is unsigned.                                          *)
(***************************************************************************)
EXTENDS Integers, Sequences, FiniteSets, TLC

VARIABLES
    modules,     \* the package modules imported so far
    errMode,     \* numpy's floating-point error mode for all four categories
    subclasses,  \* FunctionalForm.__subclasses__(), in definition order
    input,       \* the arguments the caller holds: [op, args]
    call,        \* the most recent operation and its outcome: [op, out]
    vals,        \* the list handed to sliding()
    gens,        \* the two generator objects made by sliding(vals)
    iters        \* the list iterators made by iter(vals): position of each

vars == <<modules, errMode, subclasses, input, call, vals, gens, iters>>

-----------------------------------------------------------------------------
(* Bounds of the model *)

\* significand width of the model's floats (53 in the program's float64)
MantBits == 3
\* longest coordinate sample handed to stat_moments
MaxLen == 3
\* longest reference / fit point list handed to r_squared
MaxPts == 2
\* longest coordinate sample handed to eqm / fconst
MaxSample == 2
\* atom counts range over -MaxNatoms .. MaxNatoms
MaxNatoms == 6
\* longest list handed to sliding
MaxSlide == 3
\* classes derived from FunctionalForm outside the package
MaxUserClasses == 1
\* longest coordinate sample where such classes may be defined
MaxRegistrySample == 1

-----------------------------------------------------------------------------
(* Exact rational arithmetic *)

Abs(x) == IF x < 0 THEN -x ELSE x

Min(a, b) == IF a <= b THEN a ELSE b

RECURSIVE Gcd(_, _)
Gcd(a, b) == IF b = 0 THEN a ELSE Gcd(b, a % b)

RECURSIVE Pow2(_)
Pow2(k) == IF k = 0 THEN 1 ELSE 2 * Pow2(k - 1)

\* n/d in lowest terms with a positive denominator (d # 0)
Rat(n, d) ==
    LET g == Gcd(Abs(n), Abs(d))
        s == IF d < 0 THEN -1 ELSE 1
    IN  <<(s * n) \div g, (s * d) \div g>>

Zero == <<0, 1>>
One == <<1, 1>>
Int2F(k) == <<k, 1>>

RAdd(a, b) == Rat(a[1] * b[2] + b[1] * a[2], a[2] * b[2])
RNeg(a) == <<-a[1], a[2]>>
RSub(a, b) == RAdd(a, RNeg(b))
RMul(a, b) == Rat(a[1] * b[1], a[2] * b[2])
RDiv(a, b) == Rat(a[1] * b[2], a[2] * b[1])

-----------------------------------------------------------------------------
(* Floating point *)

NaN == <<0, 0>>
Inf == <<1, 0>>
NInf == <<-1, 0>>
\* the result of an operation that raised FloatingPointError: it absorbs
\* every later operation, as the exception skips the rest of the block
FPE == <<2, 0>>

IsFinite(x) == x[2] > 0
IsNaN(x) == x = NaN
IsInf(x) == x = Inf \/ x = NInf
Sign(x) == IF x[1] < 0 THEN -1 ELSE IF x[1] > 0 THEN 1 ELSE 0
SInf(s) == IF s < 0 THEN NInf ELSE Inf

\* <<m, e>> with a/d rounded to m * 2^e, 2^(MantBits-1) <= m <= 2^MantBits
RECURSIVE Mant(_, _, _)
Mant(a, d, e) ==
    IF a >= Pow2(MantBits) * d THEN Mant(a, 2 * d, e + 1)
    ELSE IF a < Pow2(MantBits - 1) * d THEN Mant(2 * a, d, e - 1)
    ELSE LET m == a \div d
             r == a % d
             up == 2 * r > d \/ (2 * r = d /\ m % 2 = 1)
         IN  <<IF up THEN m + 1 ELSE m, e>>

\* round-to-nearest, ties-to-even, of a finite rational
Round(q) ==
    IF q[1] = 0 THEN Zero
    ELSE LET me == Mant(Abs(q[1]), q[2], 0)
             s == Sign(q)
         IN  IF me[2] >= 0 THEN Rat(s * me[1] * Pow2(me[2]), 1)
             ELSE Rat(s * me[1], Pow2(-me[2]))

\* numpy arithmetic signals "invalid" and "divide" according to errMode
Invalid == IF errMode = "raise" THEN FPE ELSE NaN
DivideByZero(s) == IF errMode = "raise" THEN FPE ELSE SInf(s)

NpAdd(a, b) ==
    IF a = FPE \/ b = FPE THEN FPE
    ELSE IF IsNaN(a) \/ IsNaN(b) THEN NaN
    ELSE IF IsInf(a) /\ IsInf(b) THEN (IF a = b THEN a ELSE Invalid)
    ELSE IF IsInf(a) THEN a
    ELSE IF IsInf(b) THEN b
    ELSE Round(RAdd(a, b))

NpNeg(a) == IF a = FPE \/ IsNaN(a) THEN a ELSE <<-a[1], a[2]>>

NpSub(a, b) == NpAdd(a, NpNeg(b))

NpMul(a, b) ==
    IF a = FPE \/ b = FPE THEN FPE
    ELSE IF IsNaN(a) \/ IsNaN(b) THEN NaN
    ELSE IF IsInf(a) \/ IsInf(b)
         THEN (IF Sign(a) * Sign(b) = 0 THEN Invalid ELSE SInf(Sign(a) * Sign(b)))
    ELSE Round(RMul(a, b))

NpDiv(a, b) ==
    IF a = FPE \/ b = FPE THEN FPE
    ELSE IF IsNaN(a) \/ IsNaN(b) THEN NaN
    ELSE IF IsInf(a) THEN (IF IsInf(b) THEN Invalid
                           ELSE SInf(Sign(a) * (IF Sign(b) < 0 THEN -1 ELSE 1)))
    ELSE IF IsInf(b) THEN Zero
    ELSE IF b = Zero THEN (IF a = Zero THEN Invalid ELSE DivideByZero(Sign(a)))
    ELSE Round(RDiv(a, b))

\* Python float arithmetic on finite operands: no error mode
PyAdd(a, b) == Round(RAdd(a, b))
PySub(a, b) == Round(RSub(a, b))
PySquare(a) == Round(RMul(a, a))

-----------------------------------------------------------------------------
(* Outcomes of a call *)

Return(v) == [kind |-> "return", exc |-> "", val |-> v]
Raise(e) == [kind |-> "raise", exc |-> e, val |-> <<>>]

NoInput == [op |-> "none", args |-> <<>>]
NoCall == [op |-> "none", out |-> Return(<<>>)]

\* Python's None, and a value that is not None
None == <<>>
Some(x) == <<x>>

\* all sequences over S of length at most n
SeqsUpTo(S, n) == UNION {[1..k -> S] : k \in 0..n}

-----------------------------------------------------------------------------
(* pycgtool/util.py *)

\* np.seterr(all="raise"), run when the module is imported
UtilErrModeWarn == "warn"
UtilErrMode == "raise"

\* vals_tmp = [val for val in vals if np.isfinite(val)]
FilterKeepAll(s) == s
FilterFinite(s) == SelectSeq(s, IsFinite)

\* for val in vals_tmp: res[0] += val
RECURSIVE SumLoop(_, _)
SumLoop(acc, s) ==
    IF s = <<>> THEN acc ELSE SumLoop(NpAdd(acc, Head(s)), Tail(s))

\* for val in vals_tmp: res[1] += pow(val - mean, 2)
RECURSIVE SqDevLoop(_, _, _)
SqDevLoop(acc, s, mean) ==
    IF s = <<>> THEN acc
    ELSE LET dev == NpSub(Head(s), mean)
         IN  SqDevLoop(NpAdd(acc, NpMul(dev, dev)), Tail(s), mean)

stat_moments(sample, ignore_nan) ==
    LET vals_tmp == IF ignore_nan THEN FilterFinite(sample) ELSE sample
        n == Int2F(Len(vals_tmp))
        res0 == SumLoop(Zero, vals_tmp)
        mean == NpDiv(res0, n)
        res1 == SqDevLoop(Zero, vals_tmp, mean)
        out0 == NpDiv(res0, n)
        out1 == NpDiv(res1, n)
    IN  IF FPE \in {res0, mean, res1, out0, out1}
        THEN Return(<<Zero, Zero>>)
        ELSE Return(<<out0, out1>>)


\* sum((y for x, y in ref)): the builtin adds from the left, starting at 0
RECURSIVE PySumY(_, _)
PySumY(acc, pts) ==
    IF pts = <<>> THEN acc ELSE PySumY(PyAdd(acc, Head(pts)[2]), Tail(pts))

\* zip(ref, fit): stops with the shorter of the two
Zip(ref, fit) == [i \in 1..Min(Len(ref), Len(fit)) |-> <<ref[i], fit[i]>>]

\* the three accumulators of the loop, <<ss_reg, ss_res, ss_tot>>
RECURSIVE SsLoop(_, _, _)
SsLoop(acc, pairs, y_mean) ==
    IF pairs = <<>> THEN acc
    ELSE LET refpy == Head(pairs)[1][2]
             fitpy == Head(pairs)[2][2]
         IN  SsLoop(<<PyAdd(acc[1], PySquare(PySub(refpy, y_mean))),
                      PyAdd(acc[2], PySquare(PySub(refpy, fitpy))),
                      PyAdd(acc[3], PySquare(PySub(fitpy, y_mean)))>>,
                    Tail(pairs), y_mean)

\* return ss_tot / ss_res, or 1 on ZeroDivisionError
RatioRegRes(ss) == IF ss[2] = Zero THEN One ELSE Round(RDiv(ss[1], ss[2]))
Ratio(ss) == IF ss[2] = Zero THEN One ELSE Round(RDiv(ss[3], ss[2]))

r_squared(ref, fit) ==
    IF Len(ref) = 0
    THEN Raise("ZeroDivisionError")    \* line 61, outside the try block
    ELSE LET y_mean == Round(RDiv(PySumY(Zero, ref), Int2F(Len(ref))))
             ss == SsLoop(<<Zero, Zero, Zero>>, Zip(ref, fit), y_mean)
         IN  Return(Ratio(ss))

\* it = iter(vals) in generator g: a list gives each call an iterator of its
\* own, at the start of the list
IterValsShared(g) == [id |-> 1, pos |-> iters[1]]
IterVals(g) == [id |-> g, pos |-> 0]

\* yield (prev, current, nxt)
LoopTriple(prev, current, nxt) == <<prev, current, nxt>>
\* yield (prev, current, None)
LastTripleNoPrev(prev, current) == <<None, current, None>>
LastTriple(prev, current) == <<prev, current, None>>

\* "for nxt in it:" entered with prev and current set: the generator yields
\* at line 48 with the next item, or at line 51 when the iterator is exhausted
LoopHead(gen, prev, current, its) ==
    LET pos == its[gen.it]
    IN  IF pos < Len(vals)
        THEN <<[gen EXCEPT !.pc = "line48", !.prev = prev, !.current = current,
                           !.nxt = Some(vals[pos + 1]),
                           !.out = Append(@, LoopTriple(prev, current, Some(vals[pos + 1])))],
               [its EXCEPT ![gen.it] = pos + 1]>>
        ELSE <<[gen EXCEPT !.pc = "line51", !.prev = prev, !.current = current,
                           !.out = Append(@, LastTriple(prev, current))],
               its>>

-----------------------------------------------------------------------------
(* pycgtool/functionalforms.py *)

\* the five subclasses of FunctionalForm the module defines, in its order
Harmonic ==
    [name |-> "Harmonic", module |-> "pycgtool.functionalforms",
     gromacs_type_ids |-> <<Some(1), Some(1), Some(1)>>]
CosHarmonic ==
    [name |-> "CosHarmonic", module |-> "pycgtool.functionalforms",
     gromacs_type_ids |-> <<None, Some(2), None>>]
MartiniDefaultLength ==
    [name |-> "MartiniDefaultLength", module |-> "pycgtool.functionalforms",
     gromacs_type_ids |-> <<Some(1), None, None>>]
MartiniDefaultAngle ==
    [name |-> "MartiniDefaultAngle", module |-> "pycgtool.functionalforms",
     gromacs_type_ids |-> <<None, Some(2), None>>]
MartiniDefaultDihedral ==
    [name |-> "MartiniDefaultDihedral", module |-> "pycgtool.functionalforms",
     gromacs_type_ids |-> <<None, None, Some(1)>>]

ModuleClasses ==
    <<Harmonic, CosHarmonic, MartiniDefaultLength, MartiniDefaultAngle,
      MartiniDefaultDihedral>>

\* d[k] = v on a dict (a function from its keys)
DictSet(d, k, v) ==
    [x \in (DOMAIN d) \cup {k} |-> IF x = k THEN v ELSE d[x]]

\* for subclass in FunctionalForm.__subclasses__(): enum_dict[name] = subclass
RECURSIVE EnumDict(_, _)
EnumDict(d, subs) ==
    IF subs = <<>> THEN d
    ELSE EnumDict(DictSet(d, Head(subs).name, Head(subs)), Tail(subs))

\* the members of the Enum returned: name -> value
\* (the assignment after the loop instead of in it: the last subclass only)
get_functional_formsLastOnly ==
    EnumDict(<<>>, SubSeq(subclasses, Len(subclasses), Len(subclasses)))
get_functional_forms == EnumDict(<<>>, subclasses)

\* t[i] on a Python tuple: 0-based, a negative index counts from the end
PyIndex(t, i) ==
    IF 0 <= i /\ i < Len(t) THEN Return(t[i + 1])
    ELSE IF -Len(t) <= i /\ i < 0 THEN Return(t[Len(t) + i + 1])
    ELSE Raise("IndexError")

gromacs_type_id_by_natomsOffByOne(cls, natoms) ==
    LET got == PyIndex(cls.gromacs_type_ids, natoms - 1)
    IN  IF got.kind = "raise" THEN got
        ELSE IF got.val = None THEN Raise("TypeError")
        ELSE Return(got.val[1])
gromacs_type_id_by_natoms(cls, natoms) ==
    LET got == PyIndex(cls.gromacs_type_ids, natoms - 2)
    IN  IF got.kind = "raise" THEN got
        ELSE IF got.val = None THEN Raise("TypeError")
        ELSE Return(got.val[1])

\* the default mean_func, np.nanmean: NaN entries are left out; without any
\* entry left the result is NaN (with a RuntimeWarning, whatever errMode is)
NotNaN(s) == SelectSeq(s, LAMBDA v : ~IsNaN(v))
NanMean(values) ==
    LET kept == NotNaN(values)
    IN  IF kept = <<>> THEN NaN
        ELSE NpDiv(SumLoop(Zero, kept), Int2F(Len(kept)))

\* the default variance_func, np.nanvar (ddof = 0), likewise
NanVar(values) ==
    LET kept == NotNaN(values)
    IN  IF kept = <<>> THEN NaN
        ELSE NpDiv(SqDevLoop(Zero, kept, NanMean(values)), Int2F(Len(kept)))

\* an operation's float result, or the FloatingPointError it raised
Outcome(v) == IF v = FPE THEN Raise("FloatingPointError") ELSE Return(v)

\* FunctionalForm.eqm, which no subclass overrides
eqm(cls, values, temp) == Return(NanMean(values))

\* rt = 8.314 * temp / 1000.
RT(temp) ==
    Round(RDiv(Round(RMul(<<4157, 500>>, Int2F(temp))), Int2F(1000)))

\* math.sin(mean)**2: NaN for NaN, 0 for 0 and otherwise a float in (0, 1],
\* any of which the model lets it be
SinSquared(mean) ==
    IF IsNaN(mean) THEN {NaN}
    ELSE IF mean = Zero THEN {Zero}
    ELSE {<<1, 4>>, One}

\* Each fconst gives the set of outcomes the call can have.
Harmonic_fconstInverted(values, temp) ==
    {Outcome(NpDiv(NanVar(values), RT(temp)))}
Harmonic_fconst(values, temp) ==
    {Outcome(NpDiv(RT(temp), NanVar(values)))}

CosHarmonic_fconst(values, temp) ==
    LET mean == eqm(CosHarmonic, values, temp).val
        var == NanVar(values)
    IN  {Outcome(NpDiv(RT(temp), NpMul(s, var))) : s \in SinSquared(mean)}

MartiniDefaultLength_fconstInverting(values, temp) ==
    {Outcome(NpDiv(RT(temp), NanVar(values)))}
MartiniDefaultLength_fconst(values, temp) == {Return(<<1250, 1>>)}

MartiniDefaultAngle_fconst(values, temp) == {Return(<<25, 1>>)}

MartiniDefaultDihedral_fconst(values, temp) == {Return(<<50, 1>>)}

\* cls().fconst(values, temp), dispatched on the class
fconst(cls, values, temp) ==
    CASE cls = Harmonic -> Harmonic_fconst(values, temp)
      [] cls = CosHarmonic -> CosHarmonic_fconst(values, temp)
      [] cls = MartiniDefaultLength -> MartiniDefaultLength_fconst(values, temp)
      [] cls = MartiniDefaultAngle -> MartiniDefaultAngle_fconst(values, temp)
      [] cls = MartiniDefaultDihedral -> MartiniDefaultDihedral_fconst(values, temp)

-----------------------------------------------------------------------------
(* The util module in a process *)

\* coordinate values: finite floats of the model and the non-finite markers
FiniteValues == {Zero, One, <<3, 1>>}
Values == FiniteValues \cup {NaN, Inf}
\* (x, y) points
Points == {<<x, y>> : x \in {Zero, One}, y \in {One, <<3, 1>>}}

UtilInputs ==
    {[op |-> "stat_moments", args |-> <<sample, ignore_nan>>] :
        sample \in SeqsUpTo(Values, MaxLen), ignore_nan \in BOOLEAN}
    \cup
    {[op |-> "r_squared", args |-> <<ref, fit>>] :
        ref \in SeqsUpTo(Points, MaxPts), fit \in SeqsUpTo(Points, MaxPts)}

InitUtil ==
    /\ modules = {}
    /\ errMode = "warn"
    /\ subclasses = <<>>
    /\ input \in UtilInputs
    /\ call = NoCall
    /\ vals = <<>>
    /\ gens = <<>>
    /\ iters = <<>>

\* import pycgtool.util
ImportUtil ==
    /\ "util" \notin modules
    /\ modules' = modules \cup {"util"}
    /\ errMode' = UtilErrMode
    /\ call' = [op |-> "import util", out |-> Return(<<>>)]
    /\ UNCHANGED <<subclasses, input, vals, gens, iters>>

CallStatMoments ==
    /\ "util" \in modules
    /\ input.op = "stat_moments"
    /\ call' = [op |-> "stat_moments",
                out |-> stat_moments(input.args[1], input.args[2])]
    /\ UNCHANGED <<modules, errMode, subclasses, input, vals, gens, iters>>

CallRSquared ==
    /\ "util" \in modules
    /\ input.op = "r_squared"
    /\ call' = [op |-> "r_squared",
                out |-> r_squared(input.args[1], input.args[2])]
    /\ UNCHANGED <<modules, errMode, subclasses, input, vals, gens, iters>>

NextUtil ==
    \/ ImportUtil
    \/ CallStatMoments
    \/ CallRSquared

SpecUtil == InitUtil /\ [][NextUtil]_vars

-----------------------------------------------------------------------------
(* Properties of stat_moments *)

IsRep(q) == Round(q) = q
FiniteEntries(s) == SelectSeq(s, LAMBDA v : v[2] > 0)
IsConstant(s) == \A i \in 1..Len(s) : s[i] = s[1]

RECURSIVE ExactSum(_)
ExactSum(s) == IF s = <<>> THEN Zero ELSE RAdd(Head(s), ExactSum(Tail(s)))

PopMean(s) == RDiv(ExactSum(s), Int2F(Len(s)))
\* mean of the squares minus the square of the mean
PopVar(s) ==
    RSub(RDiv(ExactSum([i \in 1..Len(s) |-> RMul(s[i], s[i])]), Int2F(Len(s))),
         RMul(PopMean(s), PopMean(s)))

\* no running sum of the entries is rounded
SumsExact(s) == \A k \in 1..Len(s) : IsRep(ExactSum(SubSeq(s, 1, k)))
\* no step of the two passes over s is rounded
AllExact(s) ==
    LET m == PopMean(s)
        sq == [i \in 1..Len(s) |-> RMul(RSub(s[i], m), RSub(s[i], m))]
    IN  /\ SumsExact(s)
        /\ IsRep(m)
        /\ \A i \in 1..Len(s) : IsRep(RSub(s[i], m)) /\ IsRep(sq[i])
        /\ SumsExact(sq)
        /\ IsRep(PopVar(s))

MomentsCalled == call.op = "stat_moments"
Sample == input.args[1]
IgnoreNan == input.args[2]

\* C5: stat_moments propagates no exception for a degenerate sample: for an
\* empty sample, and for a sample of non-finite entries only with
\* ignore_nan=True, it returns (0, 0).
C5_DegenerateSampleGivesZeros ==
    (/\ MomentsCalled
     /\ \/ Sample = <<>>
        \/ IgnoreNan /\ FiniteEntries(Sample) = <<>>)
    => call.out = Return(<<Zero, Zero>>)

C5_Witness ==
    /\ MomentsCalled
    /\ IgnoreNan
    /\ Len(Sample) >= 2
    /\ FiniteEntries(Sample) = <<>>
    /\ call.out = Return(<<Zero, Zero>>)

-----------------------------------------------------------------------------
(* Properties of r_squared *)

RSquaredCalled == call.op = "r_squared"
Ref == input.args[1]
Fit == input.args[2]

\* the sums of the claim, over the first k zipped pairs
RECURSIVE SumRefY(_, _)
SumRefY(ref, k) ==
    IF k = 0 THEN Zero ELSE PyAdd(SumRefY(ref, k - 1), ref[k][2])
YMean(ref) == Round(RDiv(SumRefY(ref, Len(ref)), Int2F(Len(ref))))
RECURSIVE SsRes(_, _, _)
SsRes(ref, fit, k) ==
    IF k = 0 THEN Zero
    ELSE PyAdd(SsRes(ref, fit, k - 1), PySquare(PySub(ref[k][2], fit[k][2])))
RECURSIVE SsTot(_, _, _)
SsTot(fit, ym, k) ==
    IF k = 0 THEN Zero
    ELSE PyAdd(SsTot(fit, ym, k - 1), PySquare(PySub(fit[k][2], ym)))

RSquaredAsClaimed(ref, fit) ==
    LET k == Min(Len(ref), Len(fit))
        res == SsRes(ref, fit, k)
    IN  IF res = Zero THEN One
        ELSE Round(RDiv(SsTot(fit, YMean(ref), k), res))

\* C7 as stated: for all reference and fit sequences r_squared returns
\* ssTot / ssRes over the zipped pairs, with yMean over all reference points,
\* and 1 when ssRes is zero; identical sequences always give 1.
C7_AsStated ==
    RSquaredCalled
    => /\ call.out.kind = "return"
       /\ Len(Ref) > 0 => call.out.val = RSquaredAsClaimed(Ref, Fit)
       /\ SsRes(Ref, Fit, Min(Len(Ref), Len(Fit))) = Zero => call.out.val = One
       /\ Ref = Fit => call.out.val = One

\* C7 amended: for every non-empty reference sequence r_squared returns
\* ssTot / ssRes over the zipped pairs, with yMean over all reference points,
\* and 1 when ssRes is zero; identical non-empty sequences give 1.  (An empty
\* reference raises ZeroDivisionError.)
C7_RatioOverZippedPairs ==
    (RSquaredCalled /\ Len(Ref) > 0)
    => /\ call.out.kind = "return"
       /\ call.out.val = RSquaredAsClaimed(Ref, Fit)
       /\ SsRes(Ref, Fit, Min(Len(Ref), Len(Fit))) = Zero => call.out.val = One
       /\ Ref = Fit => call.out.val = One

C7_Witness ==
    /\ RSquaredCalled
    /\ Len(Ref) > Len(Fit)
    /\ Len(Fit) > 0
    /\ call.out.kind = "return"
    /\ call.out.val \notin {Zero, One}

-----------------------------------------------------------------------------
(* The functionalforms module in a process *)

Classes == {ModuleClasses[i] : i \in 1..Len(ModuleClasses)}
FormValues == {One, <<3, 1>>, NaN}
Temperatures == {0, 300}
UserClassNames == {"Custom", "Harmonic"}
ResolveNames == {"Harmonic", "MartiniDefaultAngle", "Custom", "Unknown"}

\* a class defined outside the package
UserClass(n) ==
    [name |-> n, module |-> "user", gromacs_type_ids |-> <<None, None, None>>]
UserClasses == SelectSeq(subclasses, LAMBDA c : c.module = "user")

FormInputs ==
    {[op |-> "gromacs_type_id_by_natoms", args |-> <<cls, natoms>>] :
        cls \in Classes, natoms \in (-MaxNatoms)..MaxNatoms}
    \cup
    {[op |-> o, args |-> <<cls, values, temp>>] :
        o \in {"eqm", "fconst"}, cls \in Classes,
        values \in SeqsUpTo(FormValues, MaxSample), temp \in Temperatures}

InitForms ==
    /\ modules = {}
    /\ errMode = "warn"
    /\ subclasses = <<>>
    /\ input \in FormInputs
    /\ call = NoCall
    /\ vals = <<>>
    /\ gens = <<>>
    /\ iters = <<>>

\* import pycgtool.functionalforms: the class statements run in order
ImportFunctionalForms ==
    /\ "functionalforms" \notin modules
    /\ modules' = modules \cup {"functionalforms"}
    /\ subclasses' = subclasses \o ModuleClasses
    /\ call' = [op |-> "import functionalforms", out |-> Return(<<>>)]
    /\ UNCHANGED <<errMode, input, vals, gens, iters>>

\* class <n>(FunctionalForm): ... in some other module
DefineSubclass(n) ==
    /\ "functionalforms" \in modules
    /\ Len(UserClasses) < MaxUserClasses
    /\ subclasses' = Append(subclasses, UserClass(n))
    /\ call' = [op |-> "class", out |-> Return(<<>>)]
    /\ UNCHANGED <<modules, errMode, input, vals, gens, iters>>

CallGetFunctionalForms ==
    /\ "functionalforms" \in modules
    /\ call' = [op |-> "get_functional_forms", out |-> Return(get_functional_forms)]
    /\ UNCHANGED <<modules, errMode, subclasses, input, vals, gens, iters>>

\* get_functional_forms()[name].value
CallResolve(name) ==
    /\ "functionalforms" \in modules
    /\ call' = [op |-> "resolve",
                out |-> IF name \in DOMAIN get_functional_forms
                        THEN Return(get_functional_forms[name])
                        ELSE Raise("KeyError")]
    /\ UNCHANGED <<modules, errMode, subclasses, input, vals, gens, iters>>

CallTypeId ==
    /\ "functionalforms" \in modules
    /\ input.op = "gromacs_type_id_by_natoms"
    /\ call' = [op |-> "gromacs_type_id_by_natoms",
                out |-> gromacs_type_id_by_natoms(input.args[1], input.args[2])]
    /\ UNCHANGED <<modules, errMode, subclasses, input, vals, gens, iters>>

CallEqm ==
    /\ "functionalforms" \in modules
    /\ input.op = "eqm"
    /\ call' = [op |-> "eqm",
                out |-> eqm(input.args[1], input.args[2], input.args[3])]
    /\ UNCHANGED <<modules, errMode, subclasses, input, vals, gens, iters>>

CallFconst ==
    /\ "functionalforms" \in modules
    /\ input.op = "fconst"
    /\ \E out \in fconst(input.args[1], input.args[2], input.args[3]) :
           call' = [op |-> "fconst", out |-> out]
    /\ UNCHANGED <<modules, errMode, subclasses, input, vals, gens, iters>>

NextForms ==
    \/ ImportFunctionalForms
    \/ ImportUtil
    \/ CallTypeId
    \/ CallEqm
    \/ CallFconst

SpecForms == InitForms /\ [][NextForms]_vars

\* The same process with the registry in use: the Enum is built and looked
\* up, and further subclasses of FunctionalForm are defined.
RegistryInputs ==
    {i \in FormInputs :
        i.op \in {"eqm", "fconst"} => Len(i.args[2]) <= MaxRegistrySample}

InitRegistry ==
    /\ modules = {}
    /\ errMode = "warn"
    /\ subclasses = <<>>
    /\ input \in RegistryInputs
    /\ call = NoCall
    /\ vals = <<>>
    /\ gens = <<>>
    /\ iters = <<>>

NextRegistry ==
    \/ NextForms
    \/ \E n \in UserClassNames : DefineSubclass(n)
    \/ CallGetFunctionalForms
    \/ \E name \in ResolveNames : CallResolve(name)

SpecRegistry == InitRegistry /\ [][NextRegistry]_vars

-----------------------------------------------------------------------------
(* Properties of the registry and of the potential type ids *)

TypeIdCalled == call.op = "gromacs_type_id_by_natoms"
Variant == input.args[1]
AtomCount == input.args[2]

\* the table of the specification, per variant name: 0 stands for "absent"
SpecTypeIds ==
    [n \in {"Harmonic", "CosHarmonic", "MartiniDefaultLength",
            "MartiniDefaultAngle", "MartiniDefaultDihedral"} |->
        CASE n = "Harmonic" -> <<1, 1, 1>>
          [] n = "CosHarmonic" -> <<0, 2, 0>>
          [] n = "MartiniDefaultLength" -> <<1, 0, 0>>
          [] n = "MartiniDefaultAngle" -> <<0, 2, 0>>
          [] n = "MartiniDefaultDihedral" -> <<0, 0, 1>>]

EntryPresent(variant, atomCount) ==
    /\ atomCount \in 2..4
    /\ SpecTypeIds[variant.name][atomCount - 1] # 0

\* C1: gromacs_type_id_by_natoms fails, and returns no id, whenever the atom
\* count is outside {2,3,4} (1, 0 and negative counts included) or the
\* variant's entry at index atomCount - 2 is absent.
C1_AsStated ==
    (TypeIdCalled /\ ~EntryPresent(Variant, AtomCount))
    => call.out.kind = "raise"

\* C2: for an atom count in {2,3,4} whose entry is present,
\* gromacs_type_id_by_natoms returns the entry at atomCount - 2 of the
\* variant's table, as the specification lists the five tables; and every
\* id returned is 1 or 2.
C2_ReturnsTableEntry ==
    TypeIdCalled
    => /\ EntryPresent(Variant, AtomCount)
          => call.out = Return(SpecTypeIds[Variant.name][AtomCount - 1])
       /\ call.out.kind = "return" => call.out.val \in {1, 2}

C2_Witness ==
    /\ TypeIdCalled
    /\ Variant = CosHarmonic
    /\ AtomCount = 3
    /\ call.out = Return(2)

FiveNames ==
    {"Harmonic", "CosHarmonic", "MartiniDefaultLength", "MartiniDefaultAngle",
     "MartiniDefaultDihedral"}

\* the listing holds exactly the five names, each mapped to the class the
\* module defines under that name
ListsTheFive(enum) ==
    /\ DOMAIN enum = FiveNames
    /\ \A n \in FiveNames :
           /\ enum[n] \in Classes
           /\ enum[n].name = n
           /\ enum[n].gromacs_type_ids =
                  [i \in 1..3 |-> IF SpecTypeIds[n][i] = 0 THEN None
                                  ELSE Some(SpecTypeIds[n][i])]

-----------------------------------------------------------------------------
(* Properties of fconst *)

FconstCalled == call.op = "fconst"
Form == input.args[1]
Coords == input.args[2]
Temp == input.args[3]

C10_MartiniDefaultsAreConstant ==
    FconstCalled
    => /\ Form = MartiniDefaultLength => call.out = Return(<<1250, 1>>)
       /\ Form = MartiniDefaultAngle => call.out = Return(<<25, 1>>)
       /\ Form = MartiniDefaultDihedral => call.out = Return(<<50, 1>>)

C10_Witness ==
    /\ FconstCalled
    /\ Form = MartiniDefaultLength
    /\ FiniteEntries(Coords) = <<>>
    /\ Temp = 0
    /\ errMode = "raise"
    /\ call.out = Return(<<1250, 1>>)

-----------------------------------------------------------------------------
(* sliding() generators in a process *)

SlideElems == {1, 2}
Gens == {1, 2}
Other(g) == 3 - g

NoGen == [pc |-> "none", it |-> 0, prev |-> None, current |-> None,
          nxt |-> None, out |-> <<>>]

InitSliding ==
    /\ modules = {"util"}
    /\ errMode = UtilErrMode
    /\ subclasses = <<>>
    /\ input = NoInput
    /\ call = NoCall
    /\ vals \in SeqsUpTo(SlideElems, MaxSlide)
    /\ gens = [g \in Gens |-> NoGen]
    /\ iters = [g \in Gens |-> 0]

\* gen = sliding(vals): the generator object is made, its body has not started
CallSliding(g) ==
    /\ gens[g].pc = "none"
    /\ gens' = [gens EXCEPT ![g].pc = "created"]
    /\ UNCHANGED <<modules, errMode, subclasses, input, call, vals, iters>>

\* the first next(gen): lines 44-46, then the loop
NextFromStart(g) ==
    /\ gens[g].pc = "created"
    /\ LET it == IterVals(g)
           its == [iters EXCEPT ![it.id] = it.pos]
           gen == [gens[g] EXCEPT !.it = it.id]
       IN  IF its[it.id] < Len(vals)
           THEN LET current == Some(vals[its[it.id] + 1])
                    step == LoopHead(gen, None, current,
                                     [its EXCEPT ![it.id] = @ + 1])
                IN  /\ gens' = [gens EXCEPT ![g] = step[1]]
                    /\ iters' = step[2]
           \* next(it) raises StopIteration inside the generator: it ends the
           \* generator quietly before Python 3.7 and is a RuntimeError since
           ELSE /\ \E pc \in {"done", "error"} :
                       gens' = [gens EXCEPT ![g] = [gen EXCEPT !.pc = pc]]
                /\ iters' = its
    /\ UNCHANGED <<modules, errMode, subclasses, input, call, vals>>

\* next(gen) on a generator suspended at line 48: lines 49-50, then the loop
NextFromLoop(g) ==
    /\ gens[g].pc = "line48"
    /\ LET step == LoopHead(gens[g], gens[g].current, gens[g].nxt, iters)
       IN  /\ gens' = [gens EXCEPT ![g] = step[1]]
           /\ iters' = step[2]
    /\ UNCHANGED <<modules, errMode, subclasses, input, call, vals>>

\* next(gen) on a generator suspended at line 51: the function returns
NextFromLast(g) ==
    /\ gens[g].pc = "line51"
    /\ gens' = [gens EXCEPT ![g].pc = "done"]
    /\ UNCHANGED <<modules, errMode, subclasses, input, call, vals, iters>>

NextSliding ==
    \E g \in Gens :
        \/ CallSliding(g)
        \/ NextFromStart(g)
        \/ NextFromLoop(g)
        \/ NextFromLast(g)

SpecSliding == InitSliding /\ [][NextSliding]_vars

-----------------------------------------------------------------------------
(* Properties of sliding *)

\* the n triples of the claim
Triples(s) ==
    [i \in 1..Len(s) |->
        <<IF i = 1 THEN None ELSE Some(s[i - 1]),
          Some(s[i]),
          IF i = Len(s) THEN None ELSE Some(s[i + 1])>>]

\* C3: over a list of n >= 1 elements a generator yields exactly the n
\* triples (element[i-1], element[i], element[i+1]), previous absent in the
\* first and next absent in the last, and then terminates.
C3_YieldsTheTriplesThenStops ==
    \A g \in Gens :
        Len(vals) >= 1
        => /\ gens[g].pc # "error"
           /\ Len(gens[g].out) <= Len(vals)
           /\ gens[g].out = SubSeq(Triples(vals), 1, Len(gens[g].out))
           /\ gens[g].pc = "line48" => Len(gens[g].out) \in 1..(Len(vals) - 1)
           /\ gens[g].pc = "line51" => gens[g].out = Triples(vals)
           /\ gens[g].pc = "done" => gens[g].out = Triples(vals)
           /\ Len(gens[g].out) = Len(vals) => gens[g].pc \in {"line51", "done"}

C3_Witness ==
    /\ Len(vals) = 3
    /\ gens[1].pc = "done"
    /\ Len(gens[1].out) = 3
    /\ gens[1].out[1][1] = None
    /\ gens[1].out[3][3] = None

\* C4: two generators made by two calls on the same list are independent:
\* whenever one of them advances, the other is left as it was, and what the
\* one yields is the next triple of the list after those it yielded before;
\* so in every interleaving each yields the complete list of triples.
C4_GeneratorsAreIndependent ==
    [][\A g \in Gens :
          /\ gens'[g] # gens[g]
             => /\ gens'[Other(g)] = gens[Other(g)]
                /\ gens[Other(g)].it = 0
                   \/ iters'[gens[Other(g)].it] = iters[gens[Other(g)].it]
                /\ gens'[g].out # gens[g].out
                   => /\ Len(gens[g].out) < Len(vals)
                      /\ gens'[g].out =
                             Append(gens[g].out, Triples(vals)[Len(gens[g].out) + 1])
          /\ (Len(vals) >= 1 /\ gens'[g].pc = "done")
             => gens'[g].out = Triples(vals)]_vars

C4_Witness ==
    /\ Len(vals) = 3
    /\ gens[1].pc = "done"
    /\ gens[1].out = Triples(vals)
    /\ gens[2].pc = "line48"
    /\ Len(gens[2].out) = 1

=============================================================================
